---- MODULE Spec2Model ----
(***************************************************************************)
(* Model of src/aws.js: the EC2 provisioning life cycle of the runner      *)
(* action.  startEc2Instance creates a launch template and an instant      *)
(* spot fleet; terminateEc2Instance terminates the instance and deletes    *)
(* the launch template and the fleet.                                      *)
(*                                                                         *)
(* An async function runs without interruption between two awaits, so an   *)
(* action is one such segment: the call up to its first await, or the      *)
(* resumption after an awaited provider request has settled (the outcome   *)
(* of the request is the action's input).  A request that is sent but not  *)
(* awaited settles in an action of its own.                                *)
(*                                                                         *)
(* Every invocation keeps the ordered trace of what it did to the outside  *)
(* world: provider requests sent, provider answers received, outputs set   *)
(* with core.setOutput, and core.info / core.error / console.log lines.    *)
(***************************************************************************)
EXTENDS Naturals, Sequences, FiniteSets

VARIABLES config, start, term, wait

vars == <<config, start, term, wait>>

(***************************************************************************)
(* Bounds of the model.                                                    *)
(***************************************************************************)
NumStarts == 2          \* interleaved invocations of startEc2Instance
MaxTypeLen == 3         \* characters in config.input.ec2InstanceType
MaxSubnetLen == 3       \* characters in config.input.subnetId

Starts == 1..NumStarts

(***************************************************************************)
(* JavaScript values.  Strings that the code only passes around are TLA+   *)
(* strings; the two strings the code splits are sequences of characters.   *)
(***************************************************************************)
undefined == "undefined"

Chars == {"m", "s", ","}

Comma == ","

\* a guard that takes only undefined for a missing id
FalsyUndefinedOnly(x) == x = undefined

\* !x for a string or undefined
Falsy(x) == x = "" \/ x = undefined

RECURSIVE StringsOfLen(_)
StringsOfLen(n) ==
  IF n = 0 THEN {<<>>}
  ELSE {Append(s, c) : s \in StringsOfLen(n - 1), c \in Chars}

StringsUpTo(n) == UNION {StringsOfLen(k) : k \in 0..n}

\* String.prototype.split(sep) for a one-character separator: the pieces
\* between the separators, empty pieces included; "" gives [""].
RECURSIVE SplitFrom(_, _, _, _)
SplitFrom(s, sep, i, piece) ==
  IF i > Len(s) THEN <<piece>>
  ELSE IF s[i] = sep THEN <<piece>> \o SplitFrom(s, sep, i + 1, <<>>)
  ELSE SplitFrom(s, sep, i + 1, Append(piece, s[i]))

split(s, sep) == SplitFrom(s, sep, 1, <<>>)

(***************************************************************************)
(* Identifiers the provider hands out.  They are fresh per request, so     *)
(* they are named after the invocation whose request created them.         *)
(***************************************************************************)
TemplateIdOf(s) == <<"lt-1", "lt-2", "lt-3", "lt-4">>[s]
FleetIdOf(s) == <<"fleet-1", "fleet-2", "fleet-3", "fleet-4">>[s]
InstanceIdOf(s) == <<"i-1", "i-2", "i-3", "i-4">>[s]
v4(s) == <<"uuid-1", "uuid-2", "uuid-3", "uuid-4">>[s]

TemplateIds == {TemplateIdOf(s) : s \in Starts}
FleetIds == {FleetIdOf(s) : s \in Starts}
InstanceIds == {InstanceIdOf(s) : s \in Starts}

(***************************************************************************)
(* Trace events.                                                           *)
(***************************************************************************)
Request(name, input) == [kind |-> "request", name |-> name, value |-> input]
Response(name, result) == [kind |-> "response", name |-> name, value |-> result]
Rejection(name) == [kind |-> "rejection", name |-> name, value |-> undefined]
setOutput(name, value) == [kind |-> "output", name |-> name, value |-> value]
info(msg, value) == [kind |-> "info", name |-> msg, value |-> value]
error(msg, value) == [kind |-> "error", name |-> msg, value |-> value]
consoleLog(value) == [kind |-> "console", name |-> "log", value |-> value]

(***************************************************************************)
(* What the provider can answer.                                           *)
(***************************************************************************)
CreateLaunchTemplateOutcomes == {"reject", "noLaunchTemplate", "noLaunchTemplateId", "created"}

\* the result object of a fulfilled CreateLaunchTemplateCommand
CreateLaunchTemplateResult(outcome, s) ==
  CASE outcome = "noLaunchTemplate" -> [metadata |-> "200"]
    [] outcome = "noLaunchTemplateId" ->
         [metadata |-> "200", LaunchTemplate |-> [LaunchTemplateName |-> v4(s)]]
    [] outcome = "created" ->
         [metadata |-> "200",
          LaunchTemplate |-> [LaunchTemplateName |-> v4(s),
                              LaunchTemplateId |-> TemplateIdOf(s)]]

CreateFleetOutcomes ==
  {"reject", "noInstancesField", "noInstances", "noInstanceIdsField",
   "noInstanceIds", "launched", "launchedNoFleetId", "noFleetIdNoInstances"}

\* the result object of a fulfilled CreateFleetCommand
CreateFleetResult(outcome, s) ==
  CASE outcome = "noInstancesField" -> [FleetId |-> FleetIdOf(s)]
    [] outcome = "noInstances" -> [FleetId |-> FleetIdOf(s), Instances |-> <<>>]
    [] outcome = "noInstanceIdsField" ->
         [FleetId |-> FleetIdOf(s), Instances |-> <<[InstanceType |-> "m"]>>]
    [] outcome = "noInstanceIds" ->
         [FleetId |-> FleetIdOf(s),
          Instances |-> <<[InstanceType |-> "m", InstanceIds |-> <<>>]>>]
    [] outcome = "launched" ->
         [FleetId |-> FleetIdOf(s),
          Instances |-> <<[InstanceType |-> "m", InstanceIds |-> <<InstanceIdOf(s)>>]>>]
    [] outcome = "launchedNoFleetId" ->
         [Instances |-> <<[InstanceType |-> "m", InstanceIds |-> <<InstanceIdOf(s)>>]>>]
    [] outcome = "noFleetIdNoInstances" -> [Instances |-> <<>>]

SettleOutcomes == {"reject", "fulfil"}

\* obj.field === undefined: the property is missing
Missing(obj, field) == field \notin DOMAIN obj

\* obj.field, undefined when the property is missing
Get(obj, field) == IF Missing(obj, field) THEN undefined ELSE obj[field]

\* arr[0], undefined when the array is empty
First(arr) == IF Len(arr) = 0 THEN undefined ELSE arr[1]

(***************************************************************************)
(* startEc2Instance and createLaunchTemplate                               *)
(***************************************************************************)

(***************************************************************************)
(* buildUserDataScript.  A command is the sequence of the pieces of its    *)
(* template literal, the literal text and the interpolated values in       *)
(* order; an empty piece adds nothing to the string and is left out.       *)
(***************************************************************************)
Template(pieces) == SelectSeq(pieces, LAMBDA piece : piece # "")

Truthy(x) == ~Falsy(x)

ExecLog ==
  <<"exec > >(tee /var/log/user-data.log|logger -t user-data -s 2>/dev/console) 2>&1">>

\* ./config.sh --url https://github.com/${owner}/${repo} --token ${token} --labels ${label}
ConfigCommand(githubRegistrationToken, label) ==
  Template(<<"./config.sh --url https://github.com/", config.githubContext.owner, "/",
             config.githubContext.repo, " --token ", githubRegistrationToken,
             " --labels ", label>>)

PreRunnerCommand ==
  Template(<<"echo \"", config.input.preRunnerScript, "\" > pre-runner-script.sh">>)

\* the commands when the runner is already installed in runnerHomeDir
PreinstalledCommands(githubRegistrationToken, label) ==
  << <<"#!/bin/bash">>,
     ExecLog,
     Template(<<"cd \"", config.input.runnerHomeDir, "\"">>),
     PreRunnerCommand,
     <<"source pre-runner-script.sh">>,
     <<"export RUNNER_ALLOW_RUNASROOT=1">>,
     ConfigCommand(githubRegistrationToken, label) >>

\* the commands that download and unpack the runner
DownloadCommands(githubRegistrationToken, label) ==
  << <<"#!/bin/bash">>,
     ExecLog,
     <<"mkdir actions-runner && cd actions-runner">>,
     PreRunnerCommand,
     <<"source pre-runner-script.sh">>,
     <<"case $(uname -m) in aarch64) ARCH=\"arm64\" ;; amd64|x86_64) ARCH=\"x64\" ;; esac && export RUNNER_ARCH=${ARCH}">>,
     <<"curl -O -L https://github.com/actions/runner/releases/download/v2.313.0/actions-runner-linux-${RUNNER_ARCH}-2.313.0.tar.gz">>,
     <<"tar xzf ./actions-runner-linux-${RUNNER_ARCH}-2.313.0.tar.gz">>,
     <<"export RUNNER_ALLOW_RUNASROOT=1">>,
     ConfigCommand(githubRegistrationToken, label) >>

\* the first branch taken whatever runnerHomeDir is
BaseCommandsAlwaysDownload(githubRegistrationToken, label) ==
  IF Truthy(config.input.runnerHomeDir)
  THEN <<DownloadCommands(githubRegistrationToken, label)[6]>> \o
       PreinstalledCommands(githubRegistrationToken, label)
  ELSE DownloadCommands(githubRegistrationToken, label)

\* if (config.input.runnerHomeDir) ... else ...
BaseCommands(githubRegistrationToken, label) ==
  IF Truthy(config.input.runnerHomeDir)
  THEN PreinstalledCommands(githubRegistrationToken, label)
  ELSE DownloadCommands(githubRegistrationToken, label)

\* the ownership change left out
WithOwnerNever(userData) == userData

\* if (config.input.runAsUser) userData.push(`chown -R ${runAsUser} .`)
WithOwner(userData) ==
  IF Truthy(config.input.runAsUser)
  THEN Append(userData, Template(<<"chown -R ", config.input.runAsUser, " .">>))
  ELSE userData

\* the run command with its optional su prefix
RunCommand ==
  Template((IF Truthy(config.input.runAsUser)
            THEN <<"su ", config.input.runAsUser, " -c">>
            ELSE <<"">>) \o <<" ./run.sh">>)

\* the run command pushed after the if instead of in its else branch
WithRunnerAlwaysRuns(userData) ==
  IF config.input.runAsService
  THEN userData \o
       << Template(<<"./svc.sh install ",
                     IF Truthy(config.input.runAsUser) THEN config.input.runAsUser ELSE "">>),
          <<"./svc.sh start">>,
          RunCommand >>
  ELSE Append(userData, RunCommand)

\* if (config.input.runAsService) { install, start } else { run }
WithRunner(userData) ==
  IF config.input.runAsService
  THEN userData \o
       << Template(<<"./svc.sh install ",
                     IF Truthy(config.input.runAsUser) THEN config.input.runAsUser ELSE "">>),
          <<"./svc.sh start">> >>
  ELSE Append(userData, RunCommand)

buildUserDataScript(githubRegistrationToken, label) ==
  WithRunner(WithOwner(BaseCommands(githubRegistrationToken, label)))

\* userData.join('\n'): the pieces of all commands, a line feed between two commands
RECURSIVE join(_, _)
join(userData, sep) ==
  IF Len(userData) = 0 THEN <<>>
  ELSE IF Len(userData) = 1 THEN userData[1]
  ELSE userData[1] \o <<sep>> \o join(Tail(userData), sep)

\* Buffer.from(text).toString('base64'); the encoding is not spelled out
Base64(text) == [base64 |-> text]

\* the input of the CreateLaunchTemplateCommand
CreateLaunchTemplateInput(s, userData) ==
  [LaunchTemplateName |-> v4(s),
   LaunchTemplateData |->
     [ImageId |-> config.input.ec2ImageId,
      UserData |-> Base64(join(userData, "\n")),
      SecurityGroupIds |-> <<config.input.securityGroupId>>,
      IamInstanceProfile |-> [Name |-> config.input.iamRoleName]]]

\* result.LaunchTemplate?.LaunchTemplateId
LaunchTemplateIdOf(result) ==
  IF Missing(result, "LaunchTemplate") THEN undefined
  ELSE Get(result.LaunchTemplate, "LaunchTemplateId")

\* a check that takes only the empty string for a missing template id
TemplateMissingEmptyOnly(templateId) == templateId = ""

\* templateId === undefined
TemplateMissing(templateId) == templateId = undefined

\* subnets.forEach(subnet => instancesOverrides.push({type, subnet})), from index j
RECURSIVE ForEachSubnet(_, _, _, _)
ForEachSubnet(instancesOverrides, type, subnets, j) ==
  IF j > Len(subnets) THEN instancesOverrides
  ELSE ForEachSubnet(
         Append(instancesOverrides, [InstanceType |-> type, SubnetId |-> subnets[j]]),
         type, subnets, j + 1)

\* the two loops nested the other way round: subnets outside, types inside
RECURSIVE ForEachTypeSubnetMajor(_, _, _, _)
ForEachTypeSubnetMajor(instancesOverrides, instanceTypes, subnets, j) ==
  IF j > Len(subnets) THEN instancesOverrides
  ELSE ForEachTypeSubnetMajor(
         instancesOverrides \o
           [i \in 1..Len(instanceTypes) |->
              [InstanceType |-> instanceTypes[i], SubnetId |-> subnets[j]]],
         instanceTypes, subnets, j + 1)

\* instanceTypes.forEach(type => subnets.forEach(...)), from index i
RECURSIVE ForEachType(_, _, _, _)
ForEachType(instancesOverrides, instanceTypes, subnets, i) ==
  IF i > Len(instanceTypes) THEN instancesOverrides
  ELSE ForEachType(ForEachSubnet(instancesOverrides, instanceTypes[i], subnets, 1),
                   instanceTypes, subnets, i + 1)

\* the override list built from the two configured strings
InstancesOverrides(ec2InstanceType, subnetId) ==
  ForEachType(<<>>, split(ec2InstanceType, Comma), split(subnetId, Comma), 1)

\* the input of the CreateFleetCommand
CreateFleetInput(templateId) ==
  [LaunchTemplateConfigs |->
     <<[LaunchTemplateSpecification |->
          [LaunchTemplateId |-> templateId, Version |-> "$Latest"],
        Overrides |->
          InstancesOverrides(config.input.ec2InstanceType, config.input.subnetId)]>>,
   SpotOptions |-> [AllocationStrategy |-> "price-capacity-optimized"],
   TargetCapacitySpecification |->
     [TotalTargetCapacity |-> 1, DefaultTargetCapacityType |-> "spot"],
   Type |-> "instant"]

\* result.Instances[0].InstanceIds[0] raises a TypeError
FirstInstanceIdThrows(result) ==
  \/ Missing(result, "Instances")
  \/ /\ ~Missing(result, "Instances")
     /\ \/ Len(result.Instances) = 0
        \/ /\ Len(result.Instances) > 0
           /\ Missing(result.Instances[1], "InstanceIds")

\* result.Instances[0].InstanceIds[0], when it does not raise
FirstInstanceId(result) == First(result.Instances[1].InstanceIds)

\* the invocation ends by raising e
Throw(inv, e) == [inv EXCEPT !.pc = "thrown", !.err = e]

\* the invocation ends by returning value
Return(inv, value) == [inv EXCEPT !.pc = "returned", !.ret = value]

Emit(inv, events) == [inv EXCEPT !.trace = @ \o events]

\* startEc2Instance is called: runs into createLaunchTemplate up to the
\* awaited send of the CreateLaunchTemplateCommand
startEc2Instance(s, label, githubRegistrationToken) ==
  /\ start[s].pc = "idle"
  /\ start' = [start EXCEPT ![s] =
       [Emit(@, <<Request("CreateLaunchTemplate",
                          CreateLaunchTemplateInput(
                            s, buildUserDataScript(githubRegistrationToken, label)))>>)
          EXCEPT !.pc = "awaitCreateLaunchTemplate",
                 !.userData = buildUserDataScript(githubRegistrationToken, label)]]
  /\ UNCHANGED <<config, term, wait>>

\* createLaunchTemplate without its core.setOutput
createLaunchTemplateSilent(inv, result) ==
  [Emit(inv, <<Response("CreateLaunchTemplate", result), consoleLog(result)>>)
     EXCEPT !.templateId = LaunchTemplateIdOf(result)]

\* createLaunchTemplate after its send has settled (lines 67-70)
createLaunchTemplate(inv, result) ==
  [Emit(inv, <<Response("CreateLaunchTemplate", result),
               setOutput("template-id", LaunchTemplateIdOf(result)),
               consoleLog(result)>>)
     EXCEPT !.templateId = LaunchTemplateIdOf(result)]

\* a catch block that sends the fleet request once more before it raises
StartCatchRetry(inv, e) ==
  Throw(Emit(inv, <<error("AWS EC2 instance starting error", undefined),
                    Request("CreateFleet", CreateFleetInput(inv.templateId))>>), e)

\* the catch block of startEc2Instance
StartCatch(inv, e) ==
  Throw(Emit(inv, <<error("AWS EC2 instance starting error", undefined)>>), e)

\* a fleet request that names a template id kept outside the invocation
RequestFleetSharedTemplate(inv) ==
  IF TemplateMissing(inv.templateId)
  THEN Throw(inv, "failed to create launch template")
  ELSE [Emit(inv, <<Request("CreateFleet", CreateFleetInput(TemplateIdOf(1)))>>)
          EXCEPT !.pc = "awaitCreateFleet"]

\* startEc2Instance from the return of createLaunchTemplate to the awaited
\* send of the CreateFleetCommand (lines 76-118)
RequestFleet(inv) ==
  IF TemplateMissing(inv.templateId)
  THEN Throw(inv, "failed to create launch template")
  ELSE [Emit(inv, <<Request("CreateFleet", CreateFleetInput(inv.templateId))>>)
          EXCEPT !.pc = "awaitCreateFleet"]

\* the CreateLaunchTemplateCommand settles and the invocation resumes
CreateLaunchTemplateSettled(s, outcome) ==
  /\ start[s].pc = "awaitCreateLaunchTemplate"
  /\ start' = [start EXCEPT ![s] =
       IF outcome = "reject"
       THEN Throw(Emit(@, <<Rejection("CreateLaunchTemplate")>>),
                  "CreateLaunchTemplateError")
       ELSE RequestFleet(createLaunchTemplate(@, CreateLaunchTemplateResult(outcome, s)))]
  /\ UNCHANGED <<config, term, wait>>

\* the try block of startEc2Instance after the send has been fulfilled
\* (lines 119-122)
FleetCreated(inv, result) ==
  IF FirstInstanceIdThrows(result)
  THEN StartCatch(inv, "TypeError")
  ELSE Return(Emit(inv, <<setOutput("fleet-id", Get(result, "FleetId")),
                          info("AWS EC2 instance is started", FirstInstanceId(result))>>),
              FirstInstanceId(result))

\* the CreateFleetCommand settles and the invocation resumes
CreateFleetSettled(s, outcome) ==
  /\ start[s].pc = "awaitCreateFleet"
  /\ start' = [start EXCEPT ![s] =
       IF outcome = "reject"
       THEN StartCatch(Emit(@, <<Rejection("CreateFleet")>>), "CreateFleetError")
       ELSE FleetCreated(Emit(@, <<Response("CreateFleet", CreateFleetResult(outcome, s))>>),
                         CreateFleetResult(outcome, s))]
  /\ UNCHANGED <<config, term, wait>>

(***************************************************************************)
(* terminateEc2Instance, deleteLaunchTemplate and deleteFleet              *)
(***************************************************************************)

\* deleteFleet holding the invocation until its request is answered
deleteFleetAwaited(inv) ==
  IF Falsy(config.input.fleetId)
  THEN Emit(inv, <<info("do not have fleet id. not delete anything", undefined)>>)
  ELSE [Emit(inv, <<Request("DeleteFleets", [FleetIds |-> <<config.input.fleetId>>]),
                    Response("DeleteFleets", undefined),
                    info("deleted ec2 fleet", undefined)>>)
          EXCEPT !.deleteFleets = "fulfilled"]

\* deleteFleet naming the template id in its request
deleteFleetOfTemplate(inv) ==
  IF Falsy(config.input.fleetId)
  THEN Emit(inv, <<info("do not have fleet id. not delete anything", undefined)>>)
  ELSE [Emit(inv, <<Request("DeleteFleets", [FleetIds |-> <<config.input.templateId>>]),
                    info("deleted ec2 fleet", undefined)>>)
          EXCEPT !.deleteFleets = "pending"]

\* deleteFleet: the send is not awaited, so the function ends at once and
\* the request stays in flight
deleteFleet(inv) ==
  IF Falsy(config.input.fleetId)
  THEN Emit(inv, <<info("do not have fleet id. not delete anything", undefined)>>)
  ELSE [Emit(inv, <<Request("DeleteFleets", [FleetIds |-> <<config.input.fleetId>>]),
                    info("deleted ec2 fleet", undefined)>>)
          EXCEPT !.deleteFleets = "pending"]

\* a catch block that still cleans the fleet up before it raises
TerminateCatchThenCleanup(inv, e) ==
  Throw(deleteFleet(Emit(inv, <<error("AWS EC2 instance termination error",
                                      config.input.ec2InstanceId)>>)), e)

\* the catch block of terminateEc2Instance
TerminateCatch(inv, e) ==
  Throw(Emit(inv, <<error("AWS EC2 instance termination error",
                          config.input.ec2InstanceId)>>), e)

\* deleteLaunchTemplate whose send is not awaited: the teardown goes on at once
deleteLaunchTemplateUnawaited(inv) ==
  IF Falsy(config.input.templateId)
  THEN Return(deleteFleet(
         Emit(inv, <<info("do not have template id. not delete anything", undefined)>>)),
         undefined)
  ELSE Return(deleteFleet(
         Emit(inv, <<Request("DeleteLaunchTemplate",
                             [LaunchTemplateId |-> config.input.templateId]),
                     info("delete launch template", undefined)>>)),
         undefined)

\* deleteLaunchTemplate up to its awaited send, or to its end when the
\* template id is missing; in that case terminateEc2Instance goes on
\* through deleteFleet and returns
deleteLaunchTemplate(inv) ==
  IF Falsy(config.input.templateId)
  THEN Return(deleteFleet(
         Emit(inv, <<info("do not have template id. not delete anything", undefined)>>)),
         undefined)
  ELSE [Emit(inv, <<Request("DeleteLaunchTemplate",
                            [LaunchTemplateId |-> config.input.templateId])>>)
          EXCEPT !.pc = "awaitDeleteLaunchTemplate"]

\* terminateEc2Instance with a guard for a missing instance id, like the
\* guards of the two delete steps
terminateEc2InstanceGuarded ==
  /\ term.pc = "idle"
  /\ term' =
       IF Falsy(config.input.ec2InstanceId)
       THEN deleteLaunchTemplate(
              Emit(term, <<info("do not have instance id. not terminate anything",
                                undefined)>>))
       ELSE [Emit(term, <<Request("TerminateInstances",
                                  [InstanceIds |-> <<config.input.ec2InstanceId>>])>>)
               EXCEPT !.pc = "awaitTerminateInstances"]
  /\ UNCHANGED <<config, start, wait>>

\* terminateEc2Instance is called: runs up to the awaited send of the
\* TerminateInstancesCommand
terminateEc2Instance ==
  /\ term.pc = "idle"
  /\ term' = [Emit(term, <<Request("TerminateInstances",
                                   [InstanceIds |-> <<config.input.ec2InstanceId>>])>>)
                EXCEPT !.pc = "awaitTerminateInstances"]
  /\ UNCHANGED <<config, start, wait>>

\* the TerminateInstancesCommand settles and the invocation resumes
TerminateInstancesSettled(outcome) ==
  /\ term.pc = "awaitTerminateInstances"
  /\ term' =
       IF outcome = "reject"
       THEN TerminateCatch(Emit(term, <<Rejection("TerminateInstances")>>),
                           "TerminateInstancesError")
       ELSE deleteLaunchTemplate(
              Emit(term, <<Response("TerminateInstances", undefined),
                           info("AWS EC2 instance is terminated",
                                config.input.ec2InstanceId)>>))
  /\ UNCHANGED <<config, start, wait>>

\* the DeleteLaunchTemplateCommand settles and the invocation resumes
DeleteLaunchTemplateSettled(outcome) ==
  /\ term.pc = "awaitDeleteLaunchTemplate"
  /\ term' =
       IF outcome = "reject"
       THEN TerminateCatch(Emit(term, <<Rejection("DeleteLaunchTemplate")>>),
                           "DeleteLaunchTemplateError")
       ELSE Return(deleteFleet(
              Emit(term, <<Response("DeleteLaunchTemplate", undefined),
                           info("delete launch template", undefined)>>)),
              undefined)
  /\ UNCHANGED <<config, start, wait>>

\* the DeleteFleetsCommand nobody awaits settles; a rejection has no handler
DeleteFleetsSettled(outcome) ==
  /\ term.deleteFleets = "pending"
  /\ term' = IF outcome = "reject"
             THEN [Emit(term, <<Rejection("DeleteFleets")>>)
                     EXCEPT !.deleteFleets = "rejected"]
             ELSE [Emit(term, <<Response("DeleteFleets", undefined)>>)
                     EXCEPT !.deleteFleets = "fulfilled"]
  /\ UNCHANGED <<config, start, wait>>

(***************************************************************************)
(* waitForInstanceRunning                                                  *)
(*                                                                         *)
(* waitUntilInstanceRunning is the provider's wait primitive: it polls     *)
(* until it sees the instance running (it is fulfilled), until it sees a   *)
(* state or an error that ends the wait (it is rejected), or until its     *)
(* wait window has passed (it is rejected with a timeout).                 *)
(***************************************************************************)
maxWaitTime == 300

WaitOutcomes == {"running", "failure", "error", "timeout"}

\* the error a rejected wait raises
WaitError(outcome) ==
  CASE outcome = "failure" -> "WaiterFailure"
    [] outcome = "error" -> "ProviderError"
    [] outcome = "timeout" -> "TimeoutError"

\* a catch block that logs the error and goes on
WaitCatchSwallow(inv, e) ==
  Return(Emit(inv, <<error("AWS EC2 instance initialization error", inv.arg)>>),
         undefined)

\* the catch block of waitForInstanceRunning
WaitCatch(inv, e) ==
  Throw(Emit(inv, <<error("AWS EC2 instance initialization error", inv.arg)>>), e)

\* waitForInstanceRunning is called: runs up to the awaited wait primitive
waitForInstanceRunning(ec2InstanceId) ==
  /\ wait.pc = "idle"
  /\ wait' = [Emit(wait, <<info("Checking for instance to be up and running",
                                ec2InstanceId),
                           Request("waitUntilInstanceRunning",
                                   [maxWaitTime |-> maxWaitTime,
                                    Filters |-> <<[Name |-> "instance-id",
                                                   Values |-> <<ec2InstanceId>>]>>])>>)
                EXCEPT !.pc = "awaitWaitUntilInstanceRunning", !.arg = ec2InstanceId]
  /\ UNCHANGED <<config, start, term>>

\* one time unit of the wait window passes while the primitive polls
WaiterTick ==
  /\ wait.pc = "awaitWaitUntilInstanceRunning"
  /\ wait.elapsed < maxWaitTime
  /\ wait' = [wait EXCEPT !.elapsed = @ + 1]
  /\ UNCHANGED <<config, start, term>>

\* the wait primitive settles and the invocation resumes; the timeout comes
\* when the window has passed, the other outcomes before
WaitUntilInstanceRunningSettled(outcome) ==
  /\ wait.pc = "awaitWaitUntilInstanceRunning"
  /\ (outcome = "timeout") = (wait.elapsed >= maxWaitTime)
  /\ wait' =
       IF outcome = "running"
       THEN Return(Emit(wait, <<Response("waitUntilInstanceRunning", undefined),
                                info("AWS EC2 instance is up and running", wait.arg)>>),
                   undefined)
       ELSE WaitCatch([Emit(wait, <<Rejection("waitUntilInstanceRunning")>>)
                         EXCEPT !.rejected = outcome],
                      WaitError(outcome))
  /\ UNCHANGED <<config, start, term>>

NewWait ==
  [pc |-> "idle", arg |-> undefined, elapsed |-> 0, rejected |-> "no",
   ret |-> undefined, err |-> undefined, trace |-> <<>>]

(***************************************************************************)
(* Specifications                                                          *)
(***************************************************************************)
NewInvocation ==
  [pc |-> "idle", templateId |-> undefined, ret |-> undefined, err |-> undefined,
   trace |-> <<>>, deleteFleets |-> "none", userData |-> <<>>]

\* the identifiers a caller can hand to the teardown: those of one start
\* invocation, each possibly lost (empty)
TeardownInputs ==
  UNION {{[ec2InstanceId |-> i, templateId |-> t, fleetId |-> f] :
            i \in {"", InstanceIdOf(s)}, t \in {"", TemplateIdOf(s)},
            f \in {"", FleetIdOf(s)}} : s \in Starts}

\* how the runner is to be set up on the instance
RunnerSetups ==
  {[runnerHomeDir |-> dir, preRunnerScript |-> pre, runAsUser |-> user,
    runAsService |-> service] :
     dir \in {"", "/opt/actions-runner"}, pre \in {"", "echo pre"},
     user \in {"", "ubuntu", "ec2-user"}, service \in BOOLEAN}

DefaultSetup ==
  [runnerHomeDir |-> "", preRunnerScript |-> "", runAsUser |-> "", runAsService |-> FALSE]

RunnerConfigInput(types, subnets, ids, setup) ==
  [ec2InstanceType |-> types, subnetId |-> subnets,
   ec2InstanceId |-> ids.ec2InstanceId, templateId |-> ids.templateId,
   fleetId |-> ids.fleetId,
   ec2ImageId |-> "ami-1", securityGroupId |-> "sg-1", iamRoleName |-> "role-1",
   runnerHomeDir |-> setup.runnerHomeDir, preRunnerScript |-> setup.preRunnerScript,
   runAsUser |-> setup.runAsUser, runAsService |-> setup.runAsService]

ConfigInput(types, subnets, ids) == RunnerConfigInput(types, subnets, ids, DefaultSetup)

\* the module config: the inputs and the repository the runner registers with
Config(input) ==
  [input |-> input, githubContext |-> [owner |-> "owner", repo |-> "repo"]]

Labels == {"label-1"}
Tokens == {"token-1"}

Init ==
  /\ config \in {Config(ConfigInput(<<"m", ",", "s">>, <<"m", ",", "s">>, ids)) :
                   ids \in TeardownInputs}
  /\ start = [s \in Starts |-> NewInvocation]
  /\ term = NewInvocation
  /\ wait = NewWait

Next ==
  \/ \E s \in Starts, label \in Labels, githubRegistrationToken \in Tokens :
       startEc2Instance(s, label, githubRegistrationToken)
  \/ \E s \in Starts, outcome \in CreateLaunchTemplateOutcomes :
       CreateLaunchTemplateSettled(s, outcome)
  \/ \E s \in Starts, outcome \in CreateFleetOutcomes : CreateFleetSettled(s, outcome)
  \/ terminateEc2Instance
  \/ \E outcome \in SettleOutcomes : TerminateInstancesSettled(outcome)
  \/ \E outcome \in SettleOutcomes : DeleteLaunchTemplateSettled(outcome)
  \/ \E outcome \in SettleOutcomes : DeleteFleetsSettled(outcome)

Spec == Init /\ [][Next]_vars

\* one invocation of startEc2Instance under every configuration of the two
\* comma-separated lists
InitFleet ==
  /\ config \in {Config(ConfigInput(types, subnets,
                     [ec2InstanceId |-> "", templateId |-> "", fleetId |-> ""])) :
                   types \in StringsUpTo(MaxTypeLen), subnets \in StringsUpTo(MaxSubnetLen)}
  /\ start = [s \in Starts |-> NewInvocation]
  /\ term = NewInvocation
  /\ wait = NewWait

NextFleet ==
  \/ \E label \in Labels, githubRegistrationToken \in Tokens :
       startEc2Instance(1, label, githubRegistrationToken)
  \/ \E outcome \in CreateLaunchTemplateOutcomes : CreateLaunchTemplateSettled(1, outcome)
  \/ \E outcome \in CreateFleetOutcomes : CreateFleetSettled(1, outcome)

SpecFleet == InitFleet /\ [][NextFleet]_vars

\* one invocation of startEc2Instance under every setup of the runner
InitUserData ==
  /\ config \in {Config(RunnerConfigInput(<<"m">>, <<"s">>,
                     [ec2InstanceId |-> "", templateId |-> "", fleetId |-> ""], setup)) :
                   setup \in RunnerSetups}
  /\ start = [s \in Starts |-> NewInvocation]
  /\ term = NewInvocation
  /\ wait = NewWait

SpecUserData == InitUserData /\ [][NextFleet]_vars

\* one invocation of waitForInstanceRunning for an instance id of the caller
InitWait ==
  /\ config \in {Config(ConfigInput(<<"m">>, <<"s">>,
                     [ec2InstanceId |-> "", templateId |-> "", fleetId |-> ""]))}
  /\ start = [s \in Starts |-> NewInvocation]
  /\ term = NewInvocation
  /\ wait = NewWait

NextWait ==
  \/ \E ec2InstanceId \in InstanceIds \cup {undefined} :
       waitForInstanceRunning(ec2InstanceId)
  \/ WaiterTick
  \/ \E outcome \in WaitOutcomes : WaitUntilInstanceRunningSettled(outcome)

\* the wait window passes and the primitive ends when it has passed
SpecWait ==
  /\ InitWait
  /\ [][NextWait]_vars
  /\ WF_vars(WaiterTick)
  /\ WF_vars(WaitUntilInstanceRunningSettled("timeout"))

(***************************************************************************)
(* Reading a trace                                                         *)
(***************************************************************************)
\* the positions of the events of a kind and name
Events(trace, kind, name) ==
  {k \in DOMAIN trace : trace[k].kind = kind /\ trace[k].name = name}

Happened(trace, kind, name) == Events(trace, kind, name) # {}

AllRequests(trace) == {k \in DOMAIN trace : trace[k].kind = "request"}

Ended(inv) == inv.pc \in {"returned", "thrown"}

(***************************************************************************)
(* Properties of the teardown                                              *)
(***************************************************************************)
DeleteRequests(trace) ==
  Events(trace, "request", "DeleteLaunchTemplate") \cup Events(trace, "request", "DeleteFleets")

\* C1: when the terminate request fails, terminateEc2Instance issues neither
\* a launch-template delete nor a fleet delete request, and it ends by
\* raising the terminate error.
C1_TerminateFailureAborts ==
  Happened(term.trace, "rejection", "TerminateInstances") =>
    /\ DeleteRequests(term.trace) = {}
    /\ term.deleteFleets = "none"
    /\ term.pc = "thrown"
    /\ term.err = "TerminateInstancesError"

\* the terminate request has failed although both ids to delete were given
C1_Witness ==
  /\ Happened(term.trace, "rejection", "TerminateInstances")
  /\ config.input.templateId # ""
  /\ config.input.fleetId # ""
  /\ term.pc = "thrown"

\* C2: with both ids given, when the terminate request succeeds and the
\* launch-template delete request fails, the fleet delete request is still
\* issued and the caller receives the launch-template delete failure.
C2_FleetDeletedAfterTemplateFailure ==
  ( /\ config.input.templateId # ""
    /\ config.input.fleetId # ""
    /\ Happened(term.trace, "response", "TerminateInstances")
    /\ Happened(term.trace, "rejection", "DeleteLaunchTemplate") ) =>
    /\ Happened(term.trace, "request", "DeleteFleets")
    /\ term.pc = "thrown"
    /\ term.err = "DeleteLaunchTemplateError"

\* C3: when the fleet delete request fails at the provider, the invocation of
\* terminateEc2Instance ends in an error.
C3_FleetDeleteFailureObservable ==
  term.deleteFleets = "rejected" => term.pc = "thrown"

\* C6: with an empty template id and an empty fleet id, once the terminate
\* request has succeeded, the invocation has issued exactly one provider
\* request (the terminate), has emitted exactly one no-op notice per missing
\* id, has issued no delete request, and has returned without error.
C6_EmptyIdsOnlyTerminate ==
  ( /\ config.input.templateId = ""
    /\ config.input.fleetId = ""
    /\ Happened(term.trace, "response", "TerminateInstances") ) =>
    /\ Cardinality(AllRequests(term.trace)) = 1
    /\ Cardinality(Events(term.trace, "request", "TerminateInstances")) = 1
    /\ DeleteRequests(term.trace) = {}
    /\ term.deleteFleets = "none"
    /\ Cardinality(Events(term.trace, "info",
                          "do not have template id. not delete anything")) = 1
    /\ Cardinality(Events(term.trace, "info",
                          "do not have fleet id. not delete anything")) = 1
    /\ Events(term.trace, "info", "delete launch template") = {}
    /\ Events(term.trace, "info", "deleted ec2 fleet") = {}
    /\ term.pc = "returned"
    /\ term.err = undefined

\* the teardown of an instance alone has run to its end
C6_Witness ==
  /\ config.input.templateId = ""
  /\ config.input.fleetId = ""
  /\ config.input.ec2InstanceId # ""
  /\ Happened(term.trace, "response", "TerminateInstances")
  /\ term.pc = "returned"

(***************************************************************************)
(* Properties of the start                                                 *)
(***************************************************************************)
\* the provider answered the CreateLaunchTemplateCommand without an id
AnsweredWithoutTemplateId(trace) ==
  \E k \in Events(trace, "response", "CreateLaunchTemplate") :
    \/ "LaunchTemplate" \notin DOMAIN trace[k].value
    \/ /\ "LaunchTemplate" \in DOMAIN trace[k].value
       /\ "LaunchTemplateId" \notin DOMAIN trace[k].value.LaunchTemplate

\* C4: when launch-template creation fails (the call raises, or its result
\* has no launch-template id), startEc2Instance issues no create-fleet
\* request and ends by raising an error.
C4_NoFleetWithoutTemplate ==
  \A s \in Starts :
    ( \/ Happened(start[s].trace, "rejection", "CreateLaunchTemplate")
      \/ AnsweredWithoutTemplateId(start[s].trace) ) =>
      /\ ~Happened(start[s].trace, "request", "CreateFleet")
      /\ start[s].pc = "thrown"
      /\ start[s].err \in {"CreateLaunchTemplateError", "failed to create launch template"}

\* both ways of failing have happened: a raised call and a result without id
C4_Witness ==
  \E s, t \in Starts :
    /\ Happened(start[s].trace, "rejection", "CreateLaunchTemplate")
    /\ start[s].pc = "thrown"
    /\ AnsweredWithoutTemplateId(start[t].trace)
    /\ start[t].pc = "thrown"

\* the instance ids a CreateFleet result carries in its first instance entry
NoInstanceId(result) ==
  \/ "Instances" \notin DOMAIN result
  \/ /\ "Instances" \in DOMAIN result
     /\ \/ result.Instances = <<>>
        \/ /\ result.Instances # <<>>
           /\ \/ "InstanceIds" \notin DOMAIN result.Instances[1]
              \/ /\ "InstanceIds" \in DOMAIN result.Instances[1]
                 /\ result.Instances[1].InstanceIds = <<>>

\* C5: when the create-fleet call raises or its result carries no instance
\* id, startEc2Instance raises an error; it never returns normally without a
\* defined instance id.
C5_NoInstanceIdRaises ==
  \A s \in Starts :
    /\ ( \/ Happened(start[s].trace, "rejection", "CreateFleet")
         \/ \E k \in Events(start[s].trace, "response", "CreateFleet") :
              NoInstanceId(start[s].trace[k].value) ) => start[s].pc = "thrown"
    /\ start[s].pc = "returned" => start[s].ret # undefined

\* C7: when the create-fleet call returns a result containing a fleet id,
\* that fleet id has been emitted as the fleet-id output by the time the
\* invocation ends, whether it returns or raises.
C7_FleetIdReported ==
  \A s \in Starts :
    Ended(start[s]) =>
      \A k \in Events(start[s].trace, "response", "CreateFleet") :
        "FleetId" \in DOMAIN start[s].trace[k].value =>
          \E o \in Events(start[s].trace, "output", "fleet-id") :
            start[s].trace[o].value = start[s].trace[k].value.FleetId

\* the invocation failed at the fleet request, after a template was created
FailedAtFleetStep(inv) ==
  /\ inv.pc = "thrown"
  /\ Happened(inv.trace, "request", "CreateFleet")
  /\ ~AnsweredWithoutTemplateId(inv.trace)
  /\ Happened(inv.trace, "response", "CreateLaunchTemplate")

\* C8: when startEc2Instance fails at the fleet request after a launch
\* template was created, it issues no delete-launch-template request, and
\* the id of the created template was emitted as the template-id output
\* before the create-fleet request was issued.
C8_TemplateLeftForTeardown ==
  \A s \in Starts :
    FailedAtFleetStep(start[s]) =>
      /\ ~Happened(start[s].trace, "request", "DeleteLaunchTemplate")
      /\ \A r \in Events(start[s].trace, "response", "CreateLaunchTemplate") :
           \A f \in Events(start[s].trace, "request", "CreateFleet") :
             \E o \in Events(start[s].trace, "output", "template-id") :
               /\ o < f
               /\ start[s].trace[o].value =
                    start[s].trace[r].value.LaunchTemplate.LaunchTemplateId

\* the fleet request was rejected, and another was answered without instance
C8_Witness ==
  \E s, t \in Starts :
    /\ FailedAtFleetStep(start[s])
    /\ start[s].err = "CreateFleetError"
    /\ FailedAtFleetStep(start[t])
    /\ start[t].err = "TypeError"

(***************************************************************************)
(* Start followed by teardown                                              *)
(***************************************************************************)
\* an identifier as the caller hands it on: an undefined one becomes empty
AsInput(value) == IF value = undefined THEN "" ELSE value

\* the values an invocation emitted for an output
Reported(trace, name) ==
  {trace[o].value : o \in Events(trace, "output", name)}

\* the teardown was configured with the ids this start invocation reported
ThreadedFrom(inv) ==
  /\ config.input.ec2InstanceId = AsInput(inv.ret)
  /\ {config.input.templateId} = {AsInput(v) : v \in Reported(inv.trace, "template-id")}
  /\ {config.input.fleetId} = {AsInput(v) : v \in Reported(inv.trace, "fleet-id")}

\* every request the teardown issued has been answered successfully
TeardownSucceeded ==
  /\ term.pc = "returned"
  /\ term.deleteFleets \in {"none", "fulfilled"}

\* C9: if startEc2Instance succeeds and terminateEc2Instance runs with the
\* instance, template and fleet ids that start reported, and every provider
\* call succeeds, then once all requests have completed each resource the
\* provider created for that start has received its teardown request: the
\* instance a terminate, the template a delete, the fleet a delete.
C9_EveryResourceTornDown ==
  \A s \in Starts :
    (start[s].pc = "returned" /\ ThreadedFrom(start[s]) /\ TeardownSucceeded) =>
      /\ \A r \in Events(start[s].trace, "response", "CreateLaunchTemplate") :
           \E d \in Events(term.trace, "request", "DeleteLaunchTemplate") :
             term.trace[d].value.LaunchTemplateId =
               start[s].trace[r].value.LaunchTemplate.LaunchTemplateId
      /\ \A r \in Events(start[s].trace, "response", "CreateFleet") :
           /\ "FleetId" \in DOMAIN start[s].trace[r].value =>
                \E d \in Events(term.trace, "request", "DeleteFleets") :
                  term.trace[d].value.FleetIds = <<start[s].trace[r].value.FleetId>>
           /\ \A i \in DOMAIN start[s].trace[r].value.Instances :
                \A j \in DOMAIN start[s].trace[r].value.Instances[i].InstanceIds :
                  \E d \in Events(term.trace, "request", "TerminateInstances") :
                    term.trace[d].value.InstanceIds =
                      <<start[s].trace[r].value.Instances[i].InstanceIds[j]>>

\* the second start created all three resources and the teardown, given
\* their ids, has run to its end with its fleet delete answered
C9_Witness ==
  /\ start[2].pc = "returned"
  /\ start[2].ret = InstanceIdOf(2)
  /\ Reported(start[2].trace, "fleet-id") = {FleetIdOf(2)}
  /\ ThreadedFrom(start[2])
  /\ term.pc = "returned"
  /\ term.deleteFleets = "fulfilled"

(***************************************************************************)
(* The override list                                                       *)
(***************************************************************************)
\* the number of entries of a comma-separated list
ListSize(str) == 1 + Cardinality({k \in DOMAIN str : str[k] = ","})

\* the n-th entry (from 1) of a comma-separated list: the characters between
\* its (n-1)-th and n-th comma
Entry(str, n) ==
  LET commas(k) == Cardinality({i \in 1..k : str[i] = ","})
      at == {k \in DOMAIN str : str[k] # "," /\ commas(k) = n - 1}
      first == CHOOSE k \in at : \A l \in at : k <= l
  IN  IF at = {} THEN <<>> ELSE [k \in 1..Cardinality(at) |-> str[first + k - 1]]

\* C10: the override list sent in the create-fleet request has exactly
\* |instanceTypes| x |subnetIds| entries, ordered type-major: entry
\* (i-1)*|subnetIds| + j is the pair (i-th type, j-th subnet); so for lists
\* without repetition every pair occurs exactly once.
C10_OverridesAreTheProduct ==
  \A f \in Events(start[1].trace, "request", "CreateFleet") :
    LET overrides == start[1].trace[f].value.LaunchTemplateConfigs[1].Overrides
        types == config.input.ec2InstanceType
        subnets == config.input.subnetId
        n == ListSize(types)
        m == ListSize(subnets)
    IN  /\ Len(overrides) = n * m
        /\ \A i \in 1..n, j \in 1..m :
             overrides[(i - 1) * m + j] =
               [InstanceType |-> Entry(types, i), SubnetId |-> Entry(subnets, j)]
        /\ ( /\ \A i, k \in 1..n : Entry(types, i) = Entry(types, k) => i = k
             /\ \A j, k \in 1..m : Entry(subnets, j) = Entry(subnets, k) => j = k ) =>
             \A i \in 1..n, j \in 1..m :
               Cardinality({k \in DOMAIN overrides :
                              overrides[k] = [InstanceType |-> Entry(types, i),
                                              SubnetId |-> Entry(subnets, j)]}) = 1

\* two types and two subnets have given the four pairs of the example
C10_Witness ==
  /\ config.input.ec2InstanceType = <<"m", ",", "s">>
  /\ config.input.subnetId = <<"s", ",", "m">>
  /\ \E f \in Events(start[1].trace, "request", "CreateFleet") :
       start[1].trace[f].value.LaunchTemplateConfigs[1].Overrides =
         << [InstanceType |-> <<"m">>, SubnetId |-> <<"s">>],
            [InstanceType |-> <<"m">>, SubnetId |-> <<"m">>],
            [InstanceType |-> <<"s">>, SubnetId |-> <<"s">>],
            [InstanceType |-> <<"s">>, SubnetId |-> <<"m">>] >>

(***************************************************************************)
(* Properties of the wait                                                  *)
(***************************************************************************)
WaitSafe ==
  /\ wait.pc = "returned" =>
       /\ Happened(wait.trace, "response", "waitUntilInstanceRunning")
       /\ ~Happened(wait.trace, "rejection", "waitUntilInstanceRunning")
       /\ wait.rejected = "no"
  /\ wait.rejected # "no" =>
       /\ wait.pc = "thrown"
       /\ wait.err = (CASE wait.rejected = "timeout" -> "TimeoutError"
                        [] wait.rejected = "failure" -> "WaiterFailure"
                        [] wait.rejected = "error" -> "ProviderError")

\* C11: waitForInstanceRunning always ends, given that the wait primitive
\* ends within its window; it returns normally only if the primitive saw the
\* instance running, and when the primitive times out or fails it raises
\* that error.
C11_WaitEnds ==
  /\ []WaitSafe
  /\ (wait.pc = "awaitWaitUntilInstanceRunning") ~> Ended(wait)

\* the wait window has passed and the timeout was raised to the caller
C11_Witness ==
  /\ wait.elapsed = maxWaitTime
  /\ wait.rejected = "timeout"
  /\ wait.pc = "thrown"
  /\ wait.err = "TimeoutError"

(***************************************************************************)
(* Further properties of the teardown                                      *)
(***************************************************************************)
\* C12: the instance-termination error message is logged only when the
\* terminate request itself failed; a launch-template delete failure is not
\* reported as an instance termination error.
C12_TerminationErrorOnlyForTerminate ==
  Happened(term.trace, "error", "AWS EC2 instance termination error") =>
    /\ Happened(term.trace, "rejection", "TerminateInstances")
    /\ ~Happened(term.trace, "rejection", "DeleteLaunchTemplate")

Count(trace, name) == Cardinality(Events(trace, "request", name))

\* C13: an invocation of startEc2Instance issues at most one
\* create-launch-template and at most one create-fleet request; an invocation
\* of terminateEc2Instance at most one terminate, one delete-launch-template
\* and one delete-fleet request, whatever the provider answers.
C13_NoRetry ==
  /\ \A s \in Starts :
       /\ Count(start[s].trace, "CreateLaunchTemplate") <= 1
       /\ Count(start[s].trace, "CreateFleet") <= 1
       /\ AllRequests(start[s].trace) =
            Events(start[s].trace, "request", "CreateLaunchTemplate") \cup
            Events(start[s].trace, "request", "CreateFleet")
  /\ Count(term.trace, "TerminateInstances") <= 1
  /\ Count(term.trace, "DeleteLaunchTemplate") <= 1
  /\ Count(term.trace, "DeleteFleets") <= 1
  /\ AllRequests(term.trace) =
       Events(term.trace, "request", "TerminateInstances") \cup DeleteRequests(term.trace)

\* a start has ended on a rejected fleet request and the teardown on a
\* rejected template delete: the failures a retry would answer
C13_Witness ==
  /\ \E s \in Starts :
       /\ Happened(start[s].trace, "rejection", "CreateFleet")
       /\ start[s].pc = "thrown"
  /\ Happened(term.trace, "rejection", "DeleteLaunchTemplate")
  /\ term.pc = "thrown"

\* the template delete step has finished: answered, or skipped for a missing id
TemplateStepFinished(trace) ==
  Events(trace, "response", "DeleteLaunchTemplate") \cup
  Events(trace, "info", "do not have template id. not delete anything")

\* C17: terminateEc2Instance issues its requests in the order terminate,
\* delete-launch-template, delete-fleet: a delete request comes only after
\* the terminate request was answered successfully, and the delete-fleet
\* request only after the delete-launch-template step has finished
\* (answered successfully, or skipped for a missing id).
C17_TeardownOrder ==
  /\ \A t \in Events(term.trace, "request", "TerminateInstances") :
       \A d \in DeleteRequests(term.trace) :
         \E a \in Events(term.trace, "response", "TerminateInstances") : t < a /\ a < d
  /\ DeleteRequests(term.trace) # {} =>
       Happened(term.trace, "request", "TerminateInstances")
  /\ \A f \in Events(term.trace, "request", "DeleteFleets") :
       /\ \A d \in Events(term.trace, "request", "DeleteLaunchTemplate") : d < f
       /\ \E a \in TemplateStepFinished(term.trace) : a < f
       /\ ~Happened(term.trace, "rejection", "DeleteLaunchTemplate")

\* all three requests have been issued
C17_Witness ==
  /\ Happened(term.trace, "request", "TerminateInstances")
  /\ Happened(term.trace, "request", "DeleteLaunchTemplate")
  /\ Happened(term.trace, "request", "DeleteFleets")

FleetNoticeEmitted(inv) == Happened(inv.trace, "info", "deleted ec2 fleet")

\* the answers the provider gave to the delete-fleet request
FleetAnswers(trace) ==
  Events(trace, "response", "DeleteFleets") \cup Events(trace, "rejection", "DeleteFleets")

\* C19: terminateEc2Instance emits the 'deleted ec2 fleet' notice and
\* returns without waiting for the answer to its delete-fleet request: while
\* the request is in flight the invocation has already returned without
\* error, and an answer only ever arrives after the notice.
C19_ReturnsBeforeFleetAnswer ==
  /\ term.deleteFleets = "pending" =>
       /\ term.pc = "returned"
       /\ term.err = undefined
       /\ FleetNoticeEmitted(term)
       /\ FleetAnswers(term.trace) = {}
  /\ \A a \in FleetAnswers(term.trace) :
       /\ term.pc = "returned"
       /\ \E n \in Events(term.trace, "info", "deleted ec2 fleet") : n < a

\* the teardown has returned and its delete-fleet request is in flight
C19_Witness ==
  /\ term.pc = "returned"
  /\ term.deleteFleets = "pending"
  /\ FleetNoticeEmitted(term)

\* C20: terminateEc2Instance has no guard for a missing instance id: every
\* invocation first issues the terminate request, also for an empty id, and
\* a delete request is issued only when that request succeeded; when it
\* failed the teardown ends with its error and deletes nothing.
C20_TerminateNeverSkipped ==
  term.pc # "idle" =>
    /\ Events(term.trace, "request", "TerminateInstances") = {1}
    /\ term.trace[1].value.InstanceIds = <<config.input.ec2InstanceId>>
    /\ DeleteRequests(term.trace) # {} =>
         Happened(term.trace, "response", "TerminateInstances")
    /\ Happened(term.trace, "rejection", "TerminateInstances") =>
         (DeleteRequests(term.trace) = {} /\ term.pc = "thrown")
    /\ ~FleetNoticeEmitted(term) \/ Happened(term.trace, "response", "TerminateInstances")

\* without an instance id the terminate request was sent and failed, and the
\* template and the fleet that were named stay undeleted
C20_Witness ==
  /\ config.input.ec2InstanceId = ""
  /\ config.input.templateId # ""
  /\ config.input.fleetId # ""
  /\ Happened(term.trace, "rejection", "TerminateInstances")
  /\ DeleteRequests(term.trace) = {}
  /\ term.pc = "thrown"

(***************************************************************************)
(* Interleaved starts                                                      *)
(***************************************************************************)
\* the template ids the provider returned to an invocation
TemplatesReturned(trace) ==
  {trace[r].value.LaunchTemplate.LaunchTemplateId :
     r \in {k \in Events(trace, "response", "CreateLaunchTemplate") :
              ~AnsweredWithoutTemplateId(<<trace[k]>>)}}

FleetTemplate(request) ==
  request.value.LaunchTemplateConfigs[1].LaunchTemplateSpecification.LaunchTemplateId

\* C18: a create-fleet request of startEc2Instance comes after a
\* create-launch-template request of the same invocation was answered with
\* an id, and it names exactly that id; with interleaved invocations it names
\* no template returned to another invocation.
C18_FleetNamesOwnTemplate ==
  \A s \in Starts :
    \A f \in Events(start[s].trace, "request", "CreateFleet") :
      /\ \E r \in Events(start[s].trace, "response", "CreateLaunchTemplate") : r < f
      /\ TemplatesReturned(start[s].trace) = {FleetTemplate(start[s].trace[f])}
      /\ \A t \in Starts \ {s} :
           FleetTemplate(start[s].trace[f]) \notin TemplatesReturned(start[t].trace)

\* two invocations have their fleet requests in flight at the same time
C18_Witness ==
  /\ start[1].pc = "awaitCreateFleet"
  /\ start[2].pc = "awaitCreateFleet"
  /\ \E f \in Events(start[1].trace, "request", "CreateFleet") :
       \E g \in Events(start[2].trace, "request", "CreateFleet") :
         FleetTemplate(start[1].trace[f]) # FleetTemplate(start[2].trace[g])

(***************************************************************************)
(* Properties of the boot script                                           *)
(***************************************************************************)
\* what a command of the script is, told by its fixed text
IsArchDetection(cmd) ==
  cmd = <<"case $(uname -m) in aarch64) ARCH=\"arm64\" ;; amd64|x86_64) ARCH=\"x64\" ;; esac && export RUNNER_ARCH=${ARCH}">>
IsDownload(cmd) ==
  cmd = <<"curl -O -L https://github.com/actions/runner/releases/download/v2.313.0/actions-runner-linux-${RUNNER_ARCH}-2.313.0.tar.gz">>
IsUnpack(cmd) == cmd = <<"tar xzf ./actions-runner-linux-${RUNNER_ARCH}-2.313.0.tar.gz">>
IsRegistration(cmd) == cmd[1] = "./config.sh --url https://github.com/"
IsServiceInstall(cmd) == cmd[1] = "./svc.sh install "
IsServiceStart(cmd) == cmd = <<"./svc.sh start">>
IsRun(cmd) == cmd[Len(cmd)] = " ./run.sh"
IsOwnerChange(cmd) == cmd[1] = "chown -R "
HasUserSwitch(cmd) == \E k \in DOMAIN cmd : cmd[k] = "su "

\* the positions of the commands of a kind
Where(userData, Is(_)) == {k \in DOMAIN userData : Is(userData[k])}

\* the script an invocation of startEc2Instance has built
Built == start[1].pc # "idle"

\* C14: with runAsService true the script ends with the service-install
\* command followed by the service-start command and has no run command;
\* with runAsService false it ends with its only run command and has no
\* service command.
C14_ServiceOrRun ==
  Built =>
    LET userData == start[1].userData
        n == Len(userData)
    IN  IF config.input.runAsService
        THEN /\ Where(userData, IsServiceInstall) = {n - 1}
             /\ Where(userData, IsServiceStart) = {n}
             /\ Where(userData, IsRun) = {}
        ELSE /\ Where(userData, IsRun) = {n}
             /\ Where(userData, IsServiceInstall) = {}
             /\ Where(userData, IsServiceStart) = {}

\* a script for a service under a user has been built
C14_Witness ==
  /\ Built
  /\ config.input.runAsService
  /\ config.input.runAsUser = "ubuntu"
  /\ start[1].userData[Len(start[1].userData) - 1] = <<"./svc.sh install ", "ubuntu">>

\* C15: with runnerHomeDir unset the script has exactly one
\* architecture-detection, one download and one unpack command, all before
\* the registration command; with runnerHomeDir set it has none of them.  In
\* both cases there is exactly one registration command and it precedes
\* every service and run command.
C15_DownloadOnlyWithoutHomeDir ==
  Built =>
    LET userData == start[1].userData
        fetch == Where(userData, IsArchDetection) \cup Where(userData, IsDownload)
                   \cup Where(userData, IsUnpack)
        launch == Where(userData, IsServiceInstall) \cup Where(userData, IsServiceStart)
                    \cup Where(userData, IsRun)
    IN  /\ Cardinality(Where(userData, IsRegistration)) = 1
        /\ \A r \in Where(userData, IsRegistration) : \A l \in launch : r < l
        /\ launch # {}
        /\ IF config.input.runnerHomeDir = ""
           THEN /\ Cardinality(Where(userData, IsArchDetection)) = 1
                /\ Cardinality(Where(userData, IsDownload)) = 1
                /\ Cardinality(Where(userData, IsUnpack)) = 1
                /\ \A f \in fetch : \A r \in Where(userData, IsRegistration) : f < r
           ELSE fetch = {}

\* a script for a preinstalled runner has been built
C15_Witness ==
  /\ Built
  /\ config.input.runnerHomeDir = "/opt/actions-runner"
  /\ start[1].userData[3] = <<"cd \"", "/opt/actions-runner", "\"">>

\* C16: with runAsUser set and runAsService false the final run command is
\* prefixed with a su invocation naming that user, and an ownership change
\* for that user precedes it; with runAsUser unset the script has neither a
\* su prefix nor an ownership change.
C16_RunAsUser ==
  Built =>
    LET userData == start[1].userData
        n == Len(userData)
    IN  /\ (config.input.runAsUser # "" /\ ~config.input.runAsService) =>
             /\ userData[n] = <<"su ", config.input.runAsUser, " -c", " ./run.sh">>
             /\ \E k \in 1..(n - 1) :
                  userData[k] = <<"chown -R ", config.input.runAsUser, " .">>
        /\ config.input.runAsUser = "" =>
             /\ Where(userData, HasUserSwitch) = {}
             /\ Where(userData, IsOwnerChange) = {}

\* a script that runs the runner directly under a user has been built
C16_Witness ==
  /\ Built
  /\ config.input.runAsUser = "ec2-user"
  /\ ~config.input.runAsService
  /\ IsRun(start[1].userData[Len(start[1].userData)])

====
